---- MODULE Spec2Model ----
(***************************************************************************)
(* Discrete-event models of TaskA.py (the food shop: three counters and a  *)
(* cashier) and TaskB.py (the library: two librarians), both run on a      *)
(* SimPy environment.  One step of the model is one step of the            *)
(* environment: the first event of the schedule is taken, virtual time     *)
(* moves to it, and the process (or the resource callback) waiting for it  *)
(* runs to its next yield.                                                 *)
(*                                                                         *)
(* Times are whole seconds.  Every random draw of the programs is an       *)
(* existential choice over a few values of the range the code draws from.  *)
(***************************************************************************)
EXTENDS Integers, Sequences, FiniteSets, TLC

\* ---------------------------------------------------------------- bounds
\* processes a generator may spawn in one run
MaxProcs == 3
\* the horizon is 1..MaxHours simulated hours
MaxHours == 2
\* the one long inter-arrival gap drawn besides the gap 0 (exponential law)
LongGap == 3598
\* largest Poisson batch drawn
MaxBatch == 3
\* the longest log handed to a chart
MaxSeries == 2000
\* the chart's sample size and the shortest log that is charted
SampleSize == 1000
MinSeries == 10

\* ------------------------------------------------------ program constants
Capacity == 1
SecondsPerHour == 3600
BatchPeriod == 3600
DefaultPayTimePerItem == 3

COUNTERSDATA ==
    [c \in 1..3 |->
        CASE c = 1 -> [time |-> <<120, 60>>, purchases |-> <<3, 1>>]
          [] c = 2 -> [time |-> <<150, 30>>, purchases |-> <<4, 1>>]
          [] c = 3 -> [time |-> <<120, 45>>, purchases |-> <<5, 1>>]]

\* the library run configuration: service 45 min +- 15 min, arrivals every
\* 45 min +- 15 min (the sliders allow 1..60 min for each)
ServeTime == <<45 * 60, 15 * 60>>
ArrivalTime == <<45 * 60, 15 * 60>>

KnownLaws == {"Uniform", "Exponential", "Normal", "Poisson"}
\* a tag none of the branches of ReaderGenerator matches
UnknownLaw == "Other"

Max(a, b) == IF a >= b THEN a ELSE b
Min(a, b) == IF a <= b THEN a ELSE b

Procs == 1..MaxProcs
\* the generator process
GenId == 0
None == <<>>

\* random.uniform(lo, hi): n evenly spaced values of the range, from lo on
\* (n = 1: lo alone; n = 2: both ends).  Each call site states its n.
Uniform(lo, hi, n) == {lo + (k * (hi - lo)) \div Max(1, n - 1) : k \in 0..(n - 1)}
\* random.randint(lo, hi): the n lowest values of the range
RandInt(lo, hi, n) == {x \in lo..hi : x < lo + n}

\* ------------------------------------------------------------- resources
counters(i) == <<"counters", i>>
librarians(i) == <<"librarians", i>>
cashier == <<"cashier", 0>>
Resources == {counters(i) : i \in 0..2} \cup {cashier} \cup {librarians(i) : i \in 0..1}

VARIABLES
    model,              \* "retail" (TaskA) or "library" (TaskB)
    params,             \* the run configuration
    phase,              \* "running" | "returned"
    now,                \* env.now
    queue,              \* the environment's schedule, in processing order
    users,              \* users[r]: the requests holding r (process ids)
    putQueue,           \* putQueue[r]: the requests waiting for r
    gen,                \* the generator process: pc and next identifier
    customers,          \* TaskA: the CustomerProcess instances (history:
                        \* startTime, when the process started; grantTime,
                        \* when the cashier was granted)
    readers,            \* TaskB: the ReaderProcess instances (history: busySeen,
                        \* LibrarianBusy as the reader saw it when selecting;
                        \* doneIndex, the position of its entries in the lists)
    stats,              \* TaskA: Supermarket.stats
    currentQueueLength, \* TaskA
    cashierBusyStart,   \* TaskA: None or <<t>>
    statistic,          \* TaskB: Library.statistic
    currentQueueLen,    \* TaskB
    reqLog,             \* history: per resource, the requests in issue order
    grantLog,           \* history: per resource, the grants in grant order
    heldTime,           \* history: per resource, time it has been held so far
    batches,            \* history: Poisson batches spawned
    reqAt,              \* history: per resource, the times of the requests
    spawnLog,           \* history: the identifiers given to env.process, in order
    credited,           \* history: per resource, the intervals <<from, to>>
                        \* added to its busy-time statistic, in order
    series,             \* RunAndDisplaySim: the number of entries of the log
                        \* handed to the time-series chart
    chart               \* RunAndDisplaySim: None before the display step, then
                        \* whether the chart is drawn and the indices plotted

vars == <<model, params, phase, now, queue, users, putQueue, gen, customers,
          readers, stats, currentQueueLength, cashierBusyStart, statistic,
          currentQueueLen, reqLog, grantLog, heldTime, batches, reqAt,
          spawnLog, credited, series, chart>>

\* the state of the simulation / of the display that follows it
simVars == <<model, params, phase, now, queue, users, putQueue, gen, customers,
             readers, stats, currentQueueLength, cashierBusyStart, statistic,
             currentQueueLen, reqLog, grantLog, heldTime, batches, reqAt,
             spawnLog, credited>>
displayVars == <<series, chart>>

retailVars == <<customers, stats, currentQueueLength, cashierBusyStart>>
libraryVars == <<readers, statistic, currentQueueLen>>

\* ------------------------------------------------------ the event schedule
\* An event is [time, urgent, kind, proc, res].  The environment processes
\* events by (time, priority, insertion order); URGENT precedes NORMAL.
Event(t, urgent, kind, p, r) ==
    [time |-> t, urgent |-> urgent, kind |-> kind, proc |-> p, res |-> r]

\* the mutant: among events of one time the newest is processed first
PrecedesNewestFirst(e, t, urgent) == e.time < t

\* e, already scheduled, is processed before a new event (t, urgent)
Precedes(e, t, urgent) ==
    \/ e.time < t
    \/ e.time = t /\ (e.urgent \/ ~urgent)

\* the mutant: the schedule is a stack, the newest event is processed first
ScheduleAtFront(q, ev) == <<ev>> \o q

\* Environment.schedule: the event is queued behind the events of its time
\* and priority
Schedule(q, ev) ==
    LET n == Cardinality({i \in 1..Len(q) : Precedes(q[i], ev.time, ev.urgent)})
    IN  SubSeq(q, 1, n) \o <<ev>> \o SubSeq(q, n + 1, Len(q))

\* The part of the state the resource operations thread through a handler.
Kernel == [queue |-> Tail(queue), users |-> users, putQueue |-> putQueue,
           reqLog |-> reqLog, grantLog |-> grantLog, reqAt |-> reqAt,
           spawnLog |-> spawnLog]

SetKernel(k) ==
    /\ queue' = k.queue
    /\ users' = k.users
    /\ putQueue' = k.putQueue
    /\ reqLog' = k.reqLog
    /\ grantLog' = k.grantLog
    /\ reqAt' = k.reqAt
    /\ spawnLog' = k.spawnLog

\* the mutant: the head of the queue is granted without looking at the users
TriggerPutNoCapacity(k, r, t, fresh) ==
    IF k.putQueue[r] # <<>>
    THEN LET p == Head(k.putQueue[r])
         IN  [k EXCEPT !.users[r] = Append(@, p),
                       !.putQueue[r] = Tail(@),
                       !.queue = Schedule(@, Event(t, FALSE, "request", p, r)),
                       !.grantLog[r] = Append(@, [proc |-> p, at |-> t,
                                                  waited |-> ~(fresh /\ Len(k.putQueue[r]) = 1),
                                                  behind |-> Len(k.putQueue[r]) - 1])]
    ELSE k

\* the mutant: the newest request is served first
TriggerPutNewest(k, r, t, fresh) ==
    IF k.putQueue[r] # <<>> /\ Len(k.users[r]) < Capacity
    THEN LET n == Len(k.putQueue[r])
             p == k.putQueue[r][n]
         IN  [k EXCEPT !.users[r] = Append(@, p),
                       !.putQueue[r] = SubSeq(@, 1, n - 1),
                       !.queue = Schedule(@, Event(t, FALSE, "request", p, r)),
                       !.grantLog[r] = Append(@, [proc |-> p, at |-> t,
                                                  waited |-> ~(fresh /\ n = 1),
                                                  behind |-> n - 1])]
    ELSE k

\* Resource._trigger_put / _do_put: the request at the head of the queue is
\* granted when a slot is free; its event is scheduled at the current time.
\* fresh: the call comes from the request's own creation.
TriggerPut(k, r, t, fresh) ==
    IF k.putQueue[r] # <<>> /\ Len(k.users[r]) < Capacity
    THEN LET p == Head(k.putQueue[r])
         IN  [k EXCEPT !.users[r] = Append(@, p),
                       !.putQueue[r] = Tail(@),
                       !.queue = Schedule(@, Event(t, FALSE, "request", p, r)),
                       !.grantLog[r] = Append(@, [proc |-> p, at |-> t,
                                                  waited |-> ~(fresh /\ Len(k.putQueue[r]) = 1),
                                                  behind |-> Len(k.putQueue[r]) - 1])]
    ELSE k

\* resource.request(): the request joins the queue and the queue is triggered
Request(k, r, p, t) ==
    TriggerPut([k EXCEPT !.putQueue[r] = Append(@, p),
                         !.reqLog[r] = Append(@, p),
                         !.reqAt[r] = Append(@, t)], r, t, TRUE)

\* the mutant: the Release event is scheduled but the request stays among
\* the users
ReleaseKeepsUser(k, r, p, t) ==
    [k EXCEPT !.queue = Schedule(@, Event(t, FALSE, "release", GenId, r))]

\* the mutant: the request leaves the users but no Release event is
\* scheduled, so the queue is never triggered again
ReleaseNoWakeup(k, r, p, t) ==
    [k EXCEPT !.users[r] = SelectSeq(@, LAMBDA u : u # p)]

\* resource.release(request), on leaving the with block: the request leaves
\* the users and the Release event is scheduled; the next grant happens when
\* that event is processed.
Release(k, r, p, t) ==
    [k EXCEPT !.users[r] = SelectSeq(@, LAMBDA u : u # p),
              !.queue = Schedule(@, Event(t, FALSE, "release", GenId, r))]

\* env.timeout(delay), yielded by process p
Timeout(k, p, t, delay) ==
    [k EXCEPT !.queue = Schedule(@, Event(t + delay, FALSE, "timeout", p, None))]

\* env.process(...): the Initialize event of a new process, URGENT
Spawn(k, p, t) ==
    [k EXCEPT !.queue = Schedule(@, Event(t, TRUE, "init", p, None)),
              !.spawnLog = Append(@, p)]

\* self.env, the simulation environment object itself (not its clock env.now).
\* The arrivalTime field of a customer holds a Python value tagged by its type.
Environment == [type |-> "Environment"]

\* ------------------------------------------------------------ statistics
\* the mutant: the start of the interval is not subtracted
BusySpanFromZero(from, to) == to

\* the length of a busy interval added to a busy-time statistic:
\* env.now - cashierBusyStart, simTime - cashierBusyStart, env.now - startServe
BusySpan(from, to) == to - from

\* the mutant: the time of the request is not subtracted
QueueWaitFromZero(queueStart, t) == t

\* ReaderProcess line 41: queueWait = env.now - queueStart
QueueWait(queueStart, t) == t - queueStart

\* the mutant: the basket is given back twice
BasketReturnedTwice(st) == [st EXCEPT !.basketsInUse = @ - 2]

\* CustomerProcess line 50: a basket is taken
BasketTaken(st) == [st EXCEPT !.basketsInUse = @ + 1]

\* CustomerProcess line 61: the basket is given back
BasketReturned(st) == [st EXCEPT !.basketsInUse = @ - 1]

\* the mutant: the stored maximum is overwritten by the current length
UpdateQueueStatsLatest(st, t, qlen) ==
    [st EXCEPT !.maxQueueLength = qlen,
               !.queueLengths = Append(@, <<t, qlen>>)]

\* the mutant: a sample is logged only when the queue reaches a new maximum
UpdateQueueStatsOnRise(st, t, qlen) ==
    IF qlen > st.maxQueueLength
    THEN [st EXCEPT !.maxQueueLength = qlen,
                    !.queueLengths = Append(@, <<t, qlen>>)]
    ELSE st

\* Supermarket.UpdateQueueStats
UpdateQueueStats(st, t, qlen) ==
    [st EXCEPT !.maxQueueLength = Max(@, qlen),
               !.queueLengths = Append(@, <<t, qlen>>)]

\* Supermarket.UpdateBasketStats
UpdateBasketStats(st, t) ==
    [st EXCEPT !.maxBasketsInUse = Max(@, st.basketsInUse),
               !.basketsHistory = Append(@, <<t, st.basketsInUse>>)]

\* Library.UpdateQueueStats
LibUpdateQueueStats(st, t, qlen) ==
    [st EXCEPT !.MaxQueueLen = Max(@, qlen),
               !.QueueLen = Append(@, <<t, qlen>>)]

\* ------------------------------------------------------------ the run loop
ev == Head(queue)

\* Environment.step is about to process an event of this kind
Running(kind) == phase = "running" /\ queue # <<>> /\ ev.kind = kind

\* virtual time moves to the event; a resource held meanwhile was held for
\* the whole interval
Advance(t) ==
    /\ now' = t
    /\ heldTime' = [r \in Resources |->
                        heldTime[r] + (IF users[r] # <<>> THEN t - now ELSE 0)]

\* inter-arrival gaps drawn from random.expovariate
ExpGaps == {0, LongGap}

\* --------------------------------------------------------- TaskA: the shop
\* Supermarket.CashierProcess up to its first yield, entered from
\* CustomerProcess after the extra purchases are drawn.
JoinCashier(p, t, k, st, cust) ==
    \E extraPurchases \in RandInt(1, 3, 1) :
        /\ currentQueueLength' = currentQueueLength + 1
        /\ stats' = UpdateQueueStats(st, t, currentQueueLength + 1)
        /\ cashierBusyStart' = IF cashierBusyStart = None THEN <<t>> ELSE cashierBusyStart
        /\ SetKernel(Request(k, cashier, p, t))
        /\ customers' = [cust EXCEPT ![p].pc = "cashierReq",
                                     ![p].totalPurchases = @ + extraPurchases,
                                     ![p].queueStartTime = t]

\* Supermarket.VisitCounters from counter `from` on: each counter is visited
\* or skipped (random.random() < probability); the first one visited is
\* requested, and when none is left the customer goes to the cashier.
VisitCounters(p, t, k, st, cust, from) ==
    \E c \in from..4 :
        IF c <= 3
        THEN /\ SetKernel(Request(k, counters(c - 1), p, t))
             /\ customers' = [cust EXCEPT ![p].pc = "counterReq", ![p].counter = c]
             /\ stats' = st
             /\ UNCHANGED <<currentQueueLength, cashierBusyStart>>
        ELSE JoinCashier(p, t, k, st, cust)

\* CustomerProcess starts: lines 48-53
CustomerStart(p) ==
    /\ Running("init") /\ ev.proc = p /\ model = "retail"
    /\ LET t == ev.time
           st1 == UpdateBasketStats(BasketTaken(stats), t)
           cust1 == [customers EXCEPT ![p].pc = "started", ![p].arrivalTime = Environment,
                                      ![p].startTime = t]
       IN  VisitCounters(p, t, Kernel, st1, cust1, 1)
    /\ Advance(ev.time)
    /\ UNCHANGED <<displayVars, model, params, phase, gen, libraryVars, batches, credited>>

\* the counter is granted: lines 84-91
CounterGranted(p) ==
    /\ Running("request") /\ ev.proc = p /\ model = "retail"
    /\ customers[p].pc = "counterReq"
    /\ LET time == COUNTERSDATA[customers[p].counter].time
           baseTime == time[1]
           variation == time[2]
       IN  \E selectionTime \in Uniform(Max(0, baseTime - variation), baseTime + variation, 1) :
               SetKernel(Timeout(Kernel, p, ev.time, selectionTime))
    /\ customers' = [customers EXCEPT ![p].pc = "counterHold"]
    /\ Advance(ev.time)
    /\ UNCHANGED <<displayVars, model, params, phase, gen, libraryVars, batches, credited,
                   stats, currentQueueLength, cashierBusyStart>>

\* the selection time has passed: lines 93-98, the release, the next counters
CounterDone(p) ==
    /\ Running("timeout") /\ ev.proc = p /\ model = "retail"
    /\ customers[p].pc = "counterHold"
    /\ LET c == customers[p].counter
           basePurchases == COUNTERSDATA[c].purchases[1]
           purchaseVariation == COUNTERSDATA[c].purchases[2]
       IN  \E purchases \in RandInt(Max(1, basePurchases - purchaseVariation),
                                    basePurchases + purchaseVariation, 1) :
               VisitCounters(p, ev.time,
                             Release(Kernel, counters(c - 1), p, ev.time),
                             stats,
                             [customers EXCEPT ![p].totalPurchases = @ + purchases],
                             c + 1)
    /\ Advance(ev.time)
    /\ UNCHANGED <<displayVars, model, params, phase, gen, libraryVars, batches, credited>>

\* the cashier is granted: lines 112-118
CashierGranted(p) ==
    /\ Running("request") /\ ev.proc = p /\ model = "retail"
    /\ customers[p].pc = "cashierReq"
    /\ LET serviceTime == customers[p].totalPurchases * params.payTimePerItem
       IN  /\ currentQueueLength' = currentQueueLength - 1
           /\ stats' = [UpdateQueueStats(stats, ev.time, currentQueueLength - 1)
                            EXCEPT !.serviceTimes = Append(@, serviceTime)]
           /\ SetKernel(Timeout(Kernel, p, ev.time, serviceTime))
    /\ customers' = [customers EXCEPT ![p].pc = "cashierHold", ![p].grantTime = ev.time]
    /\ Advance(ev.time)
    /\ UNCHANGED <<displayVars, model, params, phase, gen, libraryVars, batches, credited,
                   cashierBusyStart>>

\* the payment is over: lines 120-122, the release, then lines 59-76
CashierDone(p) ==
    /\ Running("timeout") /\ ev.proc = p /\ model = "retail"
    /\ customers[p].pc = "cashierHold"
    /\ LET t == ev.time
           totalPurchases == customers[p].totalPurchases
           waitTime == t - customers[p].queueStartTime
           st1 == IF cashierBusyStart # None
                  THEN [stats EXCEPT !.cashierBusyTime = @ + BusySpan(cashierBusyStart[1], t)]
                  ELSE stats
           st2 == UpdateBasketStats(BasketReturned(st1), t)
           customerData == [id |-> p,
                            arrivalTime |-> customers[p].arrivalTime,
                            totalPurchases |-> totalPurchases,
                            waitTime |-> waitTime,
                            serviceTime |-> totalPurchases * params.payTimePerItem,
                            exitTime |-> t]
       IN  /\ stats' = [st2 EXCEPT !.customersServed = @ + 1,
                                   !.purchaseCounts = Append(@, totalPurchases),
                                   !.waitTimes = Append(@, waitTime),
                                   !.customerData = Append(@, customerData)]
           /\ SetKernel(Release(Kernel, cashier, p, t))
    /\ credited' = IF cashierBusyStart # None
                   THEN [credited EXCEPT ![cashier] = Append(@, <<cashierBusyStart[1], ev.time>>)]
                   ELSE credited
    /\ cashierBusyStart' = None
    /\ customers' = [customers EXCEPT ![p].pc = "done"]
    /\ Advance(ev.time)
    /\ UNCHANGED <<displayVars, model, params, phase, gen, libraryVars, batches, currentQueueLength>>

\* CustomerGenerator up to its first yield: lines 133-136
CustomerGeneratorStart ==
    /\ Running("init") /\ ev.proc = GenId /\ model = "retail"
    /\ \E interval \in ExpGaps : SetKernel(Timeout(Kernel, GenId, ev.time, interval))
    /\ gen' = [gen EXCEPT !.pc = "waiting"]
    /\ Advance(ev.time)
    /\ UNCHANGED <<displayVars, model, params, phase, retailVars, libraryVars, batches, credited>>

\* CustomerGenerator resumes: lines 137-138, then 135-136 again.  After
\* MaxProcs customers the generator draws no further arrival.
CustomerArrive ==
    /\ Running("timeout") /\ ev.proc = GenId /\ model = "retail"
    /\ LET customerId == gen.nextId
           k1 == Spawn(Kernel, customerId, ev.time)
       IN  IF customerId < MaxProcs
           THEN /\ \E interval \in ExpGaps : SetKernel(Timeout(k1, GenId, ev.time, interval))
                /\ gen' = [gen EXCEPT !.nextId = customerId + 1]
           ELSE /\ SetKernel(k1)
                /\ gen' = [pc |-> "capped", nextId |-> customerId + 1]
    /\ Advance(ev.time)
    /\ UNCHANGED <<displayVars, model, params, phase, retailVars, libraryVars, batches, credited>>

\* a Release event is processed: its callback triggers the put queue
ReleaseProcessed ==
    /\ Running("release")
    /\ SetKernel(TriggerPut(Kernel, ev.res, ev.time, FALSE))
    /\ Advance(ev.time)
    /\ UNCHANGED <<displayVars, model, params, phase, gen, retailVars, libraryVars, batches, credited>>

\* env.run(until) reaches the horizon and RunSim returns: TaskA lines
\* 147-150, TaskB line 142
RunSimReturn ==
    /\ Running("stop")
    /\ phase' = "returned"
    /\ queue' = Tail(queue)
    /\ Advance(ev.time)
    /\ stats' = IF model = "retail" /\ cashierBusyStart # None
                THEN [stats EXCEPT !.cashierBusyTime =
                                       @ + BusySpan(cashierBusyStart[1], params.simTime)]
                ELSE stats
    /\ credited' = IF model = "retail" /\ cashierBusyStart # None
                   THEN [credited EXCEPT ![cashier] =
                                     Append(@, <<cashierBusyStart[1], params.simTime>>)]
                   ELSE credited
    /\ UNCHANGED <<displayVars, model, params, users, putQueue, gen, customers, currentQueueLength,
                   cashierBusyStart, libraryVars, reqLog, grantLog, batches, reqAt,
                   spawnLog>>

\* ------------------------------------------------------ TaskB: the library
\* the mutant: the comparison of the loads is the wrong way round
SelectLibrarianHeavier(librarFirstLoad, librarSecLoad, LibrarianBusy) ==
    IF librarFirstLoad > librarSecLoad THEN 0
    ELSE IF librarSecLoad > librarFirstLoad THEN 1
    ELSE IF LibrarianBusy[0] < LibrarianBusy[1] THEN 0 ELSE 1

\* ReaderProcess lines 32-34
SelectLibrarian(librarFirstLoad, librarSecLoad, LibrarianBusy) ==
    IF librarFirstLoad < librarSecLoad THEN 0
    ELSE IF librarSecLoad < librarFirstLoad THEN 1
    ELSE IF LibrarianBusy[0] < LibrarianBusy[1] THEN 0 ELSE 1

\* resource.count + len(resource.queue)
Load(r) == Len(users[r]) + Len(putQueue[r])

\* ReaderProcess starts: lines 28-40
ReaderStart(p) ==
    /\ Running("init") /\ ev.proc = p /\ p # GenId /\ model = "library"
    /\ LET librarFirstLoad == Load(librarians(0))
           librarSecLoad == Load(librarians(1))
           librarIndex == SelectLibrarian(librarFirstLoad, librarSecLoad,
                                          statistic.LibrarianBusy)
       IN  /\ SetKernel(Request(Kernel, librarians(librarIndex), p, ev.time))
           /\ readers' = [readers EXCEPT ![p] = [@ EXCEPT !.pc = "request",
                                                          !.librarIndex = librarIndex,
                                                          !.librarFirstLoad = librarFirstLoad,
                                                          !.librarSecLoad = librarSecLoad,
                                                          !.busySeen = statistic.LibrarianBusy,
                                                          !.queueStart = ev.time]]
    /\ currentQueueLen' = currentQueueLen + 1
    /\ statistic' = LibUpdateQueueStats(statistic, ev.time, currentQueueLen + 1)
    /\ Advance(ev.time)
    /\ UNCHANGED <<displayVars, model, params, phase, gen, retailVars, batches, credited>>

\* the librarian is granted: lines 41-46
ReaderGranted(p) ==
    /\ Running("request") /\ ev.proc = p /\ model = "library"
    /\ readers[p].pc = "request"
    /\ LET baseTime == ServeTime[1]
           variation == ServeTime[2]
       IN  \E interval \in Uniform(Max(1, baseTime - variation), baseTime + variation, 2) :
               SetKernel(Timeout(Kernel, p, ev.time, interval))
    /\ readers' = [readers EXCEPT ![p] = [@ EXCEPT !.pc = "served",
                                                   !.queueWait = QueueWait(readers[p].queueStart, ev.time),
                                                   !.startServe = ev.time]]
    /\ currentQueueLen' = currentQueueLen - 1
    /\ statistic' = LibUpdateQueueStats(statistic, ev.time, currentQueueLen - 1)
    /\ Advance(ev.time)
    /\ UNCHANGED <<displayVars, model, params, phase, gen, retailVars, batches, credited>>

\* the service is over: lines 47-52 and the release
ReaderDone(p) ==
    /\ Running("timeout") /\ ev.proc = p /\ p # GenId /\ model = "library"
    /\ readers[p].pc = "served"
    /\ LET librarIndex == readers[p].librarIndex
           served == BusySpan(readers[p].startServe, ev.time)
       IN  /\ \E getBooks \in RandInt(1, 5, 2) :
                 statistic' = [statistic EXCEPT
                                  !.TimeWaiting = Append(@, readers[p].queueWait),
                                  !.TimeServed = Append(@, served),
                                  !.ReaderServed = @ + 1,
                                  !.LibrarianBusy[librarIndex] = @ + served,
                                  !.BooksPerReader = Append(@, getBooks)]
           /\ SetKernel(Release(Kernel, librarians(librarIndex), p, ev.time))
    /\ credited' = [credited EXCEPT ![librarians(readers[p].librarIndex)] =
                                       Append(@, <<readers[p].startServe, ev.time>>)]
    /\ readers' = [readers EXCEPT ![p].pc = "done",
                                  ![p].doneIndex = Len(statistic.TimeWaiting) + 1]
    /\ Advance(ev.time)
    /\ UNCHANGED <<displayVars, model, params, phase, gen, retailVars, currentQueueLen, batches>>

\* the inter-arrival gaps of the three interval laws: lines 63, 69, 76.  The
\* normal draws sampled are positive, so the floor max(0.1, .) leaves them.
Gaps(law) ==
    LET baseTime == ArrivalTime[1]
        variation == ArrivalTime[2]
    IN  CASE law = "Uniform" -> Uniform(Max(1, baseTime - variation), baseTime + variation, 2)
          [] law = "Exponential" -> ExpGaps
          [] law = "Normal" -> Uniform(baseTime - variation, baseTime + variation, 2)

IntervalLaws == {"Uniform", "Exponential", "Normal"}

\* ReaderGenerator up to its first yield under an interval law
ReaderGeneratorStart ==
    /\ Running("init") /\ ev.proc = GenId /\ model = "library"
    /\ params.ArrivalLaw \in IntervalLaws
    /\ \E interval \in Gaps(params.ArrivalLaw) :
           SetKernel(Timeout(Kernel, GenId, ev.time, interval))
    /\ gen' = [gen EXCEPT !.pc = "waiting"]
    /\ Advance(ev.time)
    /\ UNCHANGED <<displayVars, model, params, phase, retailVars, libraryVars, batches, credited>>

\* ReaderGenerator resumes under an interval law: a reader is spawned and the
\* next gap drawn.  After MaxProcs readers the generator draws no further
\* arrival.
ReaderArrive ==
    /\ Running("timeout") /\ ev.proc = GenId /\ model = "library"
    /\ params.ArrivalLaw \in IntervalLaws
    /\ LET readerId == gen.nextId
           k1 == Spawn(Kernel, readerId, ev.time)
       IN  IF readerId < MaxProcs
           THEN /\ \E interval \in Gaps(params.ArrivalLaw) :
                       SetKernel(Timeout(k1, GenId, ev.time, interval))
                /\ gen' = [gen EXCEPT !.nextId = readerId + 1]
           ELSE /\ SetKernel(k1)
                /\ gen' = [pc |-> "capped", nextId |-> readerId + 1]
    /\ Advance(ev.time)
    /\ UNCHANGED <<displayVars, model, params, phase, retailVars, libraryVars, batches, credited>>

\* ReaderGenerator up to its first yield under the Poisson law: line 82
PoissonGeneratorStart ==
    /\ Running("init") /\ ev.proc = GenId /\ model = "library"
    /\ params.ArrivalLaw = "Poisson"
    /\ SetKernel(Timeout(Kernel, GenId, ev.time, BatchPeriod))
    /\ gen' = [gen EXCEPT !.pc = "waiting"]
    /\ Advance(ev.time)
    /\ UNCHANGED <<displayVars, model, params, phase, retailVars, libraryVars, batches, credited>>

RECURSIVE SpawnBatchSameId(_, _, _, _)
\* the mutant: readerId is not incremented inside the batch
SpawnBatchSameId(k, readerId, readerN, t) ==
    IF readerN = 0 THEN k
    ELSE SpawnBatchSameId(Spawn(k, readerId, t), readerId, readerN - 1, t)

RECURSIVE SpawnBatch(_, _, _, _)
\* lines 84-86: readerN processes, in ascending readerId
SpawnBatch(k, readerId, readerN, t) ==
    IF readerN = 0 THEN k
    ELSE SpawnBatch(Spawn(k, readerId, t), readerId + 1, readerN - 1, t)

\* ReaderGenerator resumes under the Poisson law: lines 83-86, then 82 again.
\* The batch drawn is at most MaxBatch and leaves at most MaxProcs readers.
PoissonBatch ==
    /\ Running("timeout") /\ ev.proc = GenId /\ model = "library"
    /\ params.ArrivalLaw = "Poisson"
    /\ \E readerN \in 0..Min(MaxBatch, MaxProcs + 1 - gen.nextId) :
          /\ SetKernel(Timeout(SpawnBatch(Kernel, gen.nextId, readerN, ev.time),
                               GenId, ev.time, BatchPeriod))
          /\ gen' = [gen EXCEPT !.nextId = @ + readerN]
    /\ batches' = batches + 1
    /\ Advance(ev.time)
    /\ UNCHANGED <<displayVars, model, params, phase, retailVars, libraryVars, credited>>

\* ReaderGenerator under a tag no branch matches: the generator function ends
\* at once, having scheduled nothing
NoLawGeneratorStart ==
    /\ Running("init") /\ ev.proc = GenId /\ model = "library"
    /\ params.ArrivalLaw \notin KnownLaws
    /\ SetKernel(Kernel)
    /\ gen' = [gen EXCEPT !.pc = "finished"]
    /\ Advance(ev.time)
    /\ UNCHANGED <<displayVars, model, params, phase, retailVars, libraryVars, batches, credited>>

\* ------------------------------------------------------------------- Init
Supermarket ==
    /\ stats = [customersServed |-> 0, maxQueueLength |-> 0, maxBasketsInUse |-> 0,
                cashierBusyTime |-> 0, queueLengths |-> <<>>, basketsInUse |-> 0,
                basketsHistory |-> <<>>, serviceTimes |-> <<>>, waitTimes |-> <<>>,
                purchaseCounts |-> <<>>, customerData |-> <<>>]
    /\ currentQueueLength = 0
    /\ cashierBusyStart = None
    /\ customers = [p \in Procs |-> [pc |-> "unborn", arrivalTime |-> None,
                                     totalPurchases |-> 0, counter |-> 0,
                                     queueStartTime |-> 0, grantTime |-> 0,
                                     startTime |-> 0]]

Library ==
    /\ statistic = [ReaderServed |-> 0, TimeWaiting |-> <<>>, TimeServed |-> <<>>,
                    MaxQueueLen |-> 0, QueueLen |-> <<>>,
                    LibrarianBusy |-> [i \in 0..1 |-> 0], BooksPerReader |-> <<>>]
    /\ currentQueueLen = 0
    /\ readers = [p \in Procs |-> [pc |-> "unborn", librarIndex |-> 0,
                                   librarFirstLoad |-> 0, librarSecLoad |-> 0,
                                   busySeen |-> [i \in 0..1 |-> 0],
                                   queueStart |-> 0, queueWait |-> 0, startServe |-> 0,
                                   doneIndex |-> 0]]

\* the configuration and the freshly constructed environment and model
Construction ==
    /\ model \in {"retail", "library"}
    /\ \E hours \in 1..MaxHours :
          params \in [simTime : {hours * SecondsPerHour},
                      payTimePerItem : {DefaultPayTimePerItem},
                      ArrivalLaw : IF model = "retail" THEN {"Exponential"}
                                   ELSE KnownLaws \cup {UnknownLaw}]
    /\ phase = "running"
    /\ now = 0
    /\ queue = <<Event(0, TRUE, "init", GenId, None),
                 Event(params.simTime, TRUE, "stop", GenId, None)>>
    /\ users = [r \in Resources |-> <<>>]
    /\ putQueue = [r \in Resources |-> <<>>]
    /\ gen = [pc |-> "init", nextId |-> 1]
    /\ Supermarket
    /\ Library
    /\ reqLog = [r \in Resources |-> <<>>]
    /\ grantLog = [r \in Resources |-> <<>>]
    /\ heldTime = [r \in Resources |-> 0]
    /\ batches = 0
    /\ reqAt = [r \in Resources |-> <<>>]
    /\ spawnLog = <<>>
    /\ credited = [r \in Resources |-> <<>>]

Init ==
    /\ Construction
    /\ series = 0
    /\ chart = None

Next ==
    \/ \E p \in Procs : CustomerStart(p)
    \/ \E p \in Procs : CounterGranted(p)
    \/ \E p \in Procs : CounterDone(p)
    \/ \E p \in Procs : CashierGranted(p)
    \/ \E p \in Procs : CashierDone(p)
    \/ CustomerGeneratorStart
    \/ CustomerArrive
    \/ \E p \in Procs : ReaderStart(p)
    \/ \E p \in Procs : ReaderGranted(p)
    \/ \E p \in Procs : ReaderDone(p)
    \/ ReaderGeneratorStart
    \/ ReaderArrive
    \/ PoissonGeneratorStart
    \/ PoissonBatch
    \/ NoLawGeneratorStart
    \/ ReleaseProcessed
    \/ RunSimReturn

Spec == Init /\ [][Next]_vars

\* env.run(until = simTime) processes the scheduled events one after another
\* without pausing until the stop event: the run loop never idles while an
\* event is scheduled.
LiveSpec == Spec /\ WF_vars(Next)

\* ------------------------------------------ RunAndDisplaySim: the charts
\* the indices of a log of len entries kept for the time-series chart:
\* sampleSize = min(1000, len), step = len // sampleSize, i % step == 0
Downsample(len) ==
    LET sampleSize == Min(SampleSize, len)
        step == len \div sampleSize
    IN  {i \in 0..(len - 1) : i % step = 0}

\* one time-series chart of RunAndDisplaySim: drawn only for a non-empty log
\* of more than MinSeries entries, from the downsampled points
DisplaySeries ==
    /\ chart = None
    /\ chart' = IF series # 0 /\ series > MinSeries
                THEN [drawn |-> TRUE, points |-> Downsample(series)]
                ELSE [drawn |-> FALSE, points |-> {}]
    /\ UNCHANGED <<simVars, series>>

\* the display step on a log of any length up to MaxSeries; the chart
\* depends on the log through its length only
DisplayInit ==
    /\ Construction
    /\ series \in 0..MaxSeries
    /\ chart = None

DisplayNext == DisplaySeries

DisplaySpec == DisplayInit /\ [][DisplayNext]_vars

\* ================================================================= claims
\* the processes in service on resource r
InService(r) ==
    {p \in Procs :
        \/ customers[p].pc = "counterHold" /\ r = counters(customers[p].counter - 1)
        \/ customers[p].pc = "cashierHold" /\ r = cashier
        \/ readers[p].pc = "served" /\ r = librarians(readers[p].librarIndex)}

\* C1: in every reachable state of both models every resource unit (the
\* three counters, the cashier, the two librarians) has at most Capacity = 1
\* holder, and no two processes are in service on the same unit.
C1_CapacityRespected ==
    \A r \in Resources :
        /\ Len(users[r]) <= Capacity
        /\ Cardinality(InService(r)) <= 1

\* C1 witness: a unit is serving one process while another waits for it
C1_Witness ==
    \E r \in Resources : Cardinality(InService(r)) = 1 /\ putQueue[r] # <<>>

\* C2: on every resource unit the grants happen in request order: the
\* sequence of processes granted so far is a prefix of the sequence of
\* processes that requested the unit.
C2_GrantsInRequestOrder ==
    \A r \in Resources :
        /\ Len(grantLog[r]) <= Len(reqLog[r])
        /\ \A i \in 1..Len(grantLog[r]) : grantLog[r][i].proc = reqLog[r][i]

\* C2 witness: on one unit two processes both had to wait, the second one
\* still queued behind the first when the first was granted
C2_Witness ==
    \E r \in Resources : \E i \in 1..Len(grantLog[r]) :
        /\ i + 1 <= Len(grantLog[r])
        /\ grantLog[r][i].waited /\ grantLog[r][i].behind >= 1
        /\ grantLog[r][i + 1].waited

\* C3: the waitTime recorded for a completed customer is the checkout wait
\* alone: the time from joining the cashier queue to being granted the
\* cashier, the service duration excluded.
C3_WaitExcludesService ==
    \A i \in 1..Len(stats.customerData) :
        LET d == stats.customerData[i]
        IN  d.waitTime = customers[d.id].grantTime - customers[d.id].queueStartTime

\* C4: when the shop run has returned, cashierBusyTime is the total time
\* within the horizon during which the cashier was held.
C4_BusyTimeIsHeldTime ==
    (phase = "returned" /\ model = "retail")
        => stats.cashierBusyTime = heldTime[cashier]

\* C5: when the library run returns with a reader in service, the part of
\* that service elapsed up to the horizon is in the librarian's LibrarianBusy
\* value, which is then the time the librarian was held.
C5_OpenIntervalCredited ==
    \A p \in Procs :
        (phase = "returned" /\ model = "library" /\ readers[p].pc = "served")
            => LET i == readers[p].librarIndex
               IN  statistic.LibrarianBusy[i] = heldTime[librarians(i)]

\* reader p starts in this step
ReaderStarts(p) == readers[p].pc = "unborn" /\ readers'[p].pc # "unborn"

\* C6: a reader that starts when both librarians have equal load and equal
\* cumulative busy time selects librarian 0.
C6_TieSelectsFirst ==
    [][\A p \in Procs :
          (/\ ReaderStarts(p)
           /\ Load(librarians(0)) = Load(librarians(1))
           /\ statistic.LibrarianBusy[0] = statistic.LibrarianBusy[1])
              => readers'[p].librarIndex = 0]_vars

\* C7: a reader that starts requests the librarian of strictly smaller load
\* when the loads differ, and the one of strictly lower LibrarianBusy when
\* the loads are equal and the busy times differ.
C7_SelectionPolicy ==
    [][\A p \in Procs :
          ReaderStarts(p) =>
              LET l0 == Load(librarians(0))
                  l1 == Load(librarians(1))
                  b == statistic.LibrarianBusy
                  chosen == readers'[p].librarIndex
              IN  /\ l0 < l1 => chosen = 0
                  /\ l1 < l0 => chosen = 1
                  /\ (l0 = l1 /\ b[0] < b[1]) => chosen = 0
                  /\ (l0 = l1 /\ b[1] < b[0]) => chosen = 1
                  /\ reqLog'[librarians(chosen)] = Append(reqLog[librarians(chosen)], p)]_vars

\* C7 witness: each direction of both rules has decided some selection
C7_Witness ==
    \E p, q \in Procs :
        /\ readers[p].pc # "unborn" /\ readers[q].pc # "unborn"
        /\ readers[p].librarFirstLoad > readers[p].librarSecLoad
        /\ readers[p].librarIndex = 1
        /\ readers[q].librarFirstLoad = readers[q].librarSecLoad
        /\ readers[q].busySeen[0] < readers[q].busySeen[1]
        /\ readers[q].librarIndex = 0

\* C8: a Poisson run whose horizon is n batch periods has spawned n batches
\* when it returns.
C8_BatchPerPeriod ==
    (phase = "returned" /\ model = "library" /\ params.ArrivalLaw = "Poisson")
        => batches = params.simTime \div BatchPeriod

\* the customers that have joined the cashier queue
Joined == {p \in Procs : customers[p].pc \in {"cashierReq", "cashierHold", "done"}}

\* C9: when the n >= 2 customers of a run all joined the cashier queue at
\* the same instant (the first of them finding the cashier idle), the
\* maximum queue length in the returned statistics is n - 1.
C9_BurstMaxQueue ==
    (/\ phase = "returned" /\ model = "retail"
     /\ Cardinality(Joined) >= 2
     /\ \A p, q \in Joined : customers[p].queueStartTime = customers[q].queueStartTime)
        => stats.maxQueueLength = Cardinality(Joined) - 1

\* C10: a library run whose arrival-law tag is not recognized does not run
\* to the horizon and return a statistics record.
C10_UnknownLawRejected ==
    (model = "library" /\ params.ArrivalLaw \notin KnownLaws) => phase # "returned"

\* the position of process p in a log of process identifiers
IndexOf(log, p) == CHOOSE i \in 1..Len(log) : log[i] = p

\* the readers whose service has completed
DoneReaders == {p \in Procs : readers[p].pc = "done"}

\* C11: every TimeWaiting entry is the time between the reader's request
\* and the grant of the librarian it selected: never negative, the service
\* excluded, and exactly 0 for a reader granted at once (librarian idle).
C11_LibraryWaitIsRequestToGrant ==
    \A p \in DoneReaders :
        LET r == librarians(readers[p].librarIndex)
            asked == reqAt[r][IndexOf(reqLog[r], p)]
            grant == grantLog[r][IndexOf([i \in 1..Len(grantLog[r]) |-> grantLog[r][i].proc], p)]
            wait == statistic.TimeWaiting[readers[p].doneIndex]
        IN  /\ wait = grant.at - asked
            /\ wait >= 0
            /\ ~grant.waited => wait = 0

\* C11 witness: one served reader found its librarian idle, another one had
\* to wait for a positive time
C11_Witness ==
    \E p, q \in DoneReaders :
        /\ readers[p].librarFirstLoad = 0 /\ readers[p].librarSecLoad = 0
        /\ statistic.TimeWaiting[readers[p].doneIndex] = 0
        /\ statistic.TimeWaiting[readers[q].doneIndex] > 0

\* the resources with a busy-time statistic, and its value
Timed == {cashier, librarians(0), librarians(1)}
BusyOf(r) == IF r = cashier THEN stats.cashierBusyTime
             ELSE statistic.LibrarianBusy[r[2]]

RECURSIVE TotalLength(_)
\* the summed length of a sequence of intervals
TotalLength(intervals) ==
    IF intervals = <<>> THEN 0
    ELSE (Head(intervals)[2] - Head(intervals)[1]) + TotalLength(Tail(intervals))

\* C12: in every reachable state, the returned record included, each busy
\* time (cashierBusyTime, both LibrarianBusy values) is the summed length of
\* intervals that lie within the elapsed time and do not overlap, so it is
\* at most the elapsed time, which is at most the horizon.
C12_BusyTimeWithinElapsed ==
    /\ now <= params.simTime
    /\ \A r \in Timed :
        /\ BusyOf(r) <= now
        /\ BusyOf(r) = TotalLength(credited[r])
        /\ \A i \in 1..Len(credited[r]) :
              /\ 0 <= credited[r][i][1]
              /\ credited[r][i][1] <= credited[r][i][2]
              /\ credited[r][i][2] <= now
              /\ i < Len(credited[r]) => credited[r][i][2] <= credited[r][i + 1][1]

\* C12 witness: the shop run has returned with two intervals credited to the
\* cashier, the last one closed at the horizon
C12_Witness ==
    /\ phase = "returned"
    /\ Len(credited[cashier]) >= 2
    /\ credited[cashier][Len(credited[cashier])][2] = params.simTime
    /\ stats.cashierBusyTime > 0

RECURSIVE MaxValue(_)
\* the largest value of a log of <<timestamp, value>> samples, 0 when empty
MaxValue(log) ==
    IF log = <<>> THEN 0 ELSE Max(Head(log)[2], MaxValue(Tail(log)))

\* C13: in every reachable state of both models the stored maximum queue
\* length is the largest value of the queue-length log so far (0 when the
\* log is empty), and maxBasketsInUse is the largest value of basketsHistory.
C13_MaximaMatchLogs ==
    /\ stats.maxQueueLength = MaxValue(stats.queueLengths)
    /\ stats.maxBasketsInUse = MaxValue(stats.basketsHistory)
    /\ statistic.MaxQueueLen = MaxValue(statistic.QueueLen)

\* C13 witness: a queue-length log whose largest value, at least 2, is not
\* its last one
C13_Witness ==
    /\ stats.maxQueueLength >= 2
    /\ stats.queueLengths # <<>>
    /\ stats.queueLengths[Len(stats.queueLengths)][2] < stats.maxQueueLength
    /\ stats.maxBasketsInUse > stats.basketsInUse

\* the timestamps of a log never decrease and none exceeds the horizon
TimeOrdered(log) ==
    \A i \in 1..Len(log) :
        /\ log[i][1] <= params.simTime
        /\ log[i][1] <= now
        /\ i < Len(log) => log[i][1] <= log[i + 1][1]

\* C14: virtual time never decreases from one processed event to the next
\* (no scheduled event lies before env.now), so the timestamps of the
\* queue-length logs and of the basket log are non-decreasing in append
\* order and none exceeds the horizon.
C14_TimeMonotone ==
    /\ now <= params.simTime
    /\ \A i \in 1..Len(queue) : now <= queue[i].time
    /\ TimeOrdered(stats.queueLengths)
    /\ TimeOrdered(stats.basketsHistory)
    /\ TimeOrdered(statistic.QueueLen)

\* C14 witness: a queue-length log and a basket log, each holding samples of
\* one instant and samples of different instants
C14_Witness ==
    /\ \E i, j \in 1..Len(stats.queueLengths) :
          /\ i < j /\ stats.queueLengths[i][1] < stats.queueLengths[j][1]
          /\ j < Len(stats.queueLengths)
          /\ stats.queueLengths[j][1] = stats.queueLengths[j + 1][1]
    /\ \E i \in 1..Len(stats.basketsHistory) :
          i > 1 /\ stats.basketsHistory[i - 1][1] < stats.basketsHistory[i][1]

\* process p has started / its Initialize event is still scheduled
Started(p) == customers[p].pc # "unborn" \/ readers[p].pc # "unborn"
InitPending(p) == {i \in 1..Len(queue) : queue[i].kind = "init" /\ queue[i].proc = p}

\* C15: the identifiers given to the spawned processes are 1, 2, 3, ... in
\* spawn order, under every arrival law and inside a Poisson batch: none is
\* skipped or used twice, and each spawn makes exactly one process.
C15_FreshIdentifiers ==
    /\ \A i \in 1..Len(spawnLog) : spawnLog[i] = i
    /\ gen.nextId = Len(spawnLog) + 1
    /\ \A p \in Procs :
          /\ (Started(p) \/ InitPending(p) # {}) <=> p <= Len(spawnLog)
          /\ Cardinality(InitPending(p)) + (IF Started(p) THEN 1 ELSE 0) <= 1

\* C15 witness: one Poisson batch has spawned three readers at once
C15_Witness ==
    /\ model = "library" /\ params.ArrivalLaw = "Poisson"
    /\ batches = 1
    /\ Len(spawnLog) = 3
    /\ InitPending(2) # {} /\ InitPending(3) # {}

\* C17: in the returned retail record every per-customer sample list has
\* exactly customersServed entries: a customer cut off by the horizon has
\* added to none of waitTimes, serviceTimes, purchaseCounts, customerData.
C17_SampleListsMatchServed ==
    (model = "retail" /\ phase = "returned") =>
        /\ Len(stats.waitTimes) = stats.customersServed
        /\ Len(stats.serviceTimes) = stats.customersServed
        /\ Len(stats.purchaseCounts) = stats.customersServed
        /\ Len(stats.customerData) = stats.customersServed

\* a Python number as a tagged value
Number(t) == [type |-> "number", value |-> t]

\* C18: every completion record of the retail model carries as arrivalTime
\* the virtual time at which that customer's process started, which is at
\* most its exitTime, and exitTime is the time the customer completed.
C18_ArrivalTimeRecorded ==
    \A i \in 1..Len(stats.customerData) :
        LET d == stats.customerData[i]
        IN  /\ d.arrivalTime = Number(customers[d.id].startTime)
            /\ customers[d.id].startTime <= d.exitTime
            /\ d.exitTime <= now

\* customers whose process has started / of them, those that completed
StartedCustomers == {p \in Procs : customers[p].pc # "unborn"}
CompletedCustomers == {p \in Procs : customers[p].pc = "done"}

\* C19: basketsInUse is the number of started customers minus the number
\* that completed (which is customersServed); it is never negative, and in
\* the returned record it is the number of customers the horizon cut off.
C19_BasketOccupancy ==
    model = "retail" =>
        /\ stats.basketsInUse =
              Cardinality(StartedCustomers) - Cardinality(CompletedCustomers)
        /\ stats.customersServed = Cardinality(CompletedCustomers)
        /\ stats.basketsInUse >= 0
        /\ phase = "returned" =>
              stats.basketsInUse =
                  Cardinality(StartedCustomers \ CompletedCustomers)

\* C19 witness: the run has returned, one customer completed and gave the
\* basket back, another was cut off and still holds one
C19_Witness ==
    /\ model = "retail" /\ phase = "returned"
    /\ stats.customersServed >= 1
    /\ stats.basketsInUse >= 1

\* process p has a timeout scheduled at or after the horizon
HorizonPending(p) ==
    \E i \in 1..Len(queue) :
        queue[i].kind = "timeout" /\ queue[i].proc = p /\ queue[i].time >= params.simTime

\* the horizon was reached first for p: the run has returned and either p's
\* own delay ends at or after the horizon, or p waits for a resource whose
\* holder's service ends at or after the horizon
CutOff(p) ==
    /\ phase = "returned"
    /\ \/ HorizonPending(p)
       \/ \E r \in Resources :
             /\ \E i \in 1..Len(putQueue[r]) : putQueue[r][i] = p
             /\ \E j \in 1..Len(users[r]) : HorizonPending(users[r][j])

\* p has requested a resource and has not resumed with it / p holds one
Requesting(p) ==
    customers[p].pc \in {"counterReq", "cashierReq"} \/ readers[p].pc = "request"
Holding(p) ==
    customers[p].pc \in {"counterHold", "cashierHold"} \/ readers[p].pc = "served"

\* p completed and is counted in the served statistics
Served(p) ==
    \/ /\ customers[p].pc = "done"
       /\ \E i \in 1..Len(stats.customerData) : stats.customerData[i].id = p
       /\ stats.customersServed >= 1
    \/ /\ readers[p].pc = "done"
       /\ readers[p].doneIndex \in 1..statistic.ReaderServed

\* C20: no starvation.  Unless the horizon is reached first, every process
\* that requests a resource is eventually granted it, and every customer
\* or reader that starts eventually completes and is counted as served.
\* A pending request is left only by its grant, and being served or cut off
\* is permanent, so the claim is: from some point on no process is left
\* requesting or unserved unless the horizon cut it off.
C20_NoStarvation ==
    /\ [][\A p \in Procs : (Requesting(p) /\ ~Requesting(p)') => Holding(p)']_vars
    /\ [][\A p \in Procs : (Served(p) => Served(p)') /\ (CutOff(p) => CutOff(p)')]_vars
    /\ <>[](\A p \in Procs : /\ Requesting(p) => CutOff(p)
                             /\ Started(p) => (Served(p) \/ CutOff(p)))

\* C20 witness: a process that had to wait behind another one was granted
\* the resource and has been served, the run still going on
C20_Witness ==
    /\ phase = "running"
    /\ \E r \in Resources : \E i \in 1..Len(grantLog[r]) :
          grantLog[r][i].waited /\ Served(grantLog[r][i].proc)

\* C21: the downsampling of a log of more than 10 entries keeps at most
\* 1000 points, and always keeps index 0.
C21_AtMostThousandPoints ==
    (chart # None /\ chart.drawn) =>
        /\ Cardinality(chart.points) <= SampleSize
        /\ 0 \in chart.points

\* the run is a library under the Poisson batch law
PoissonLaw == model = "library" /\ params.ArrivalLaw = "Poisson"

\* the readers waiting for or being served by librarian i
ActiveAt(i) ==
    {q \in Procs : readers[q].pc \in {"request", "served"} /\ readers[q].librarIndex = i}

\* the identifiers in a grant log are ascending
AscendingGrants(log) ==
    \A i, j \in 1..Len(log) : i < j => log[i].proc < log[j].proc

\* C22: a Poisson batch is processed in a fixed order.  When a reader
\* starts, every reader with a smaller identifier has already started and
\* issued its request and no reader with a larger one has started; what is
\* left of the batch starts at this same timestamp; the reader sees as load
\* exactly the readers waiting or in service at each librarian, and issues
\* its own request in the same step.  On each librarian the grants are in
\* ascending identifier order.
C22_BatchOrder ==
    /\ [][PoissonLaw =>
            \A p \in Procs : ReaderStarts(p) =>
                /\ \A q \in Procs : q < p =>
                      /\ readers[q].pc # "unborn"
                      /\ \E i \in 0..1 : \E k \in 1..Len(reqLog[librarians(i)]) :
                            reqLog[librarians(i)][k] = q
                /\ \A q \in Procs : q > p => readers[q].pc = "unborn"
                /\ \A i \in 1..Len(queue') :
                      queue'[i].kind = "init" => queue'[i].time = now'
                /\ readers'[p].queueStart = now'
                /\ readers'[p].librarFirstLoad = Cardinality(ActiveAt(0))
                /\ readers'[p].librarSecLoad = Cardinality(ActiveAt(1))
                /\ LET log == reqLog'[librarians(readers'[p].librarIndex)]
                   IN  log # <<>> /\ log[Len(log)] = p]_vars
    /\ [](PoissonLaw => \A i \in 0..1 : AscendingGrants(grantLog[librarians(i)]))

\* C22 witness: a batch of three readers started at one timestamp, and a
\* reader of the batch that waited behind another was granted its librarian
C22_Witness ==
    /\ PoissonLaw
    /\ \A p \in Procs : /\ readers[p].pc # "unborn"
                        /\ readers[p].queueStart = readers[1].queueStart
    /\ \E i \in 0..1 : LET log == grantLog[librarians(i)]
                       IN  Len(log) >= 2 /\ log[2].waited

\* the log starts at 1, moves by exactly 1 between consecutive samples, is
\* never negative and ends at the current value of the counter
ExactLog(log, counter) ==
    /\ \A i \in 1..Len(log) : log[i][2] >= 0
    /\ \A i \in 1..(Len(log) - 1) :
          log[i + 1][2] - log[i][2] \in {-1, 1}
    /\ IF log = <<>> THEN counter = 0
       ELSE log[1][2] = 1 /\ log[Len(log)][2] = counter

\* the customers / readers that have resumed with the cashier / a librarian
CashierResumed == {p \in Procs : customers[p].pc \in {"cashierHold", "done"}}
LibrarianResumed == {p \in Procs : readers[p].pc \in {"served", "done"}}

\* C23: the queue-length log of either model is an exact event-indexed
\* record: one sample per enqueue and one per grant and no other, so
\* consecutive samples differ by exactly 1, none is negative and the last
\* one is the current queue-length counter.
C23_ExactQueueLog ==
    /\ model = "retail" =>
          /\ ExactLog(stats.queueLengths, currentQueueLength)
          /\ Len(stats.queueLengths) =
                Len(reqLog[cashier]) + Cardinality(CashierResumed)
          /\ currentQueueLength =
                Len(reqLog[cashier]) - Cardinality(CashierResumed)
    /\ model = "library" =>
          /\ ExactLog(statistic.QueueLen, currentQueueLen)
          /\ Len(statistic.QueueLen) =
                Len(reqLog[librarians(0)]) + Len(reqLog[librarians(1)])
                + Cardinality(LibrarianResumed)
          /\ currentQueueLen =
                Len(reqLog[librarians(0)]) + Len(reqLog[librarians(1)])
                - Cardinality(LibrarianResumed)

\* C23 witness: the cashier's log has risen to 2 and come back down to 0
C23_Witness ==
    /\ model = "retail"
    /\ currentQueueLength = 0
    /\ \E i \in 1..Len(stats.queueLengths) : stats.queueLengths[i][2] = 2

\* p is in the sequence of process identifiers
In(p, seq) == \E i \in 1..Len(seq) : seq[i] = p

\* the resources customer p holds / waits for
HeldBy(p) == {r \in Resources : In(p, users[r])}
WaitedBy(p) == {r \in Resources : In(p, putQueue[r])}

\* an event is scheduled that will let the queue of r move: the timeout or
\* the resumption of its holder, or the Release event of r
WillMove(r) ==
    \E i \in 1..Len(queue) :
        \/ queue[i].kind \in {"timeout", "request"} /\ In(queue[i].proc, users[r])
        \/ queue[i].kind = "release" /\ queue[i].res = r

\* C24: a customer of the retail model holds at most one resource and never
\* waits for one while holding another; it requests the counters in the
\* order 1, 2, 3 and the cashier last, having released every counter; and
\* whenever a process waits, an event that moves its queue is scheduled,
\* so the system is never deadlocked.
C24_OneResourceAtATime ==
    model = "retail" =>
        /\ \A p \in Procs :
              /\ Cardinality(HeldBy(p) \cup WaitedBy(p)) <= 1
              /\ \A c \in 1..3 :
                    In(p, reqLog[counters(c - 1)]) =>
                        /\ customers[p].pc \in {"counterReq", "counterHold"} =>
                              c <= customers[p].counter
                        /\ c = customers[p].counter
                              \/ ~In(p, users[counters(c - 1)])
              /\ In(p, reqLog[cashier]) =>
                    /\ customers[p].pc \in {"cashierReq", "cashierHold", "done"}
                    /\ \A c \in 1..3 : ~In(p, users[counters(c - 1)])
              /\ customers[p].pc \in {"counterReq", "counterHold"} =>
                    HeldBy(p) \cup WaitedBy(p) = {counters(customers[p].counter - 1)}
        /\ \A r \in Resources :
              (phase = "running" /\ putQueue[r] # <<>>) => WillMove(r)

\* C24 witness: a customer that visited two counters holds the cashier and
\* nothing else, while another customer waits for a resource
C24_Witness ==
    /\ model = "retail"
    /\ \E p \in Procs :
          /\ \E c, d \in 1..3 :
                c < d /\ In(p, reqLog[counters(c - 1)]) /\ In(p, reqLog[counters(d - 1)])
          /\ HeldBy(p) = {cashier}
          /\ \E q \in Procs : q # p /\ WaitedBy(q) # {}

====
